---- MODULE Spec2Model ----
(***************************************************************************)
(* A model of GPy's exponential kernel part (GPy/kern/exponential.py) and  *)
(* of the GPLVM model (GPy/models/GPLVM.py).                               *)
(*                                                                         *)
(* Numbers.  The program computes in IEEE doubles.  The model computes in  *)
(* decimal fixed point: the integer v stands for the real v / SCALE, and   *)
(* the two IEEE special values the code can produce (np.inf, and the NaN   *)
(* of 0 * inf or 0 / 0) are the out-of-range integers Inf and NaN.  Every  *)
(* arithmetic operator below propagates them the way IEEE arithmetic does. *)
(*                                                                         *)
(* Arrays.  A numpy vector is a sequence, a matrix a sequence of rows.  A  *)
(* numpy view (x[1:]) is a record naming the array it looks into, so that  *)
(* a write to that array by its owner is seen through the view.            *)
(***************************************************************************)
EXTENDS Integers, Sequences, FiniteSets, TLC

VARIABLES
    kern,      \* the exponential kernel object: a record of its attributes
    raised,    \* the exception the last call ended with, or "none"
    heap,      \* the arrays the kernel's views can look into
    X,         \* the caller's input matrix of the kernel operations
    target,    \* the caller's accumulator array
    last,      \* the last call: its name, its arguments, what it returned
    total,     \* the sum of the contributions added into target so far
    gplvm,     \* the GPLVM object
    gram       \* the activation record of a Gram_matrix call

vars == <<kern, raised, heap, X, target, last, total, gplvm, gram>>

-----------------------------------------------------------------------------
(* Bounds of the model.                                                    *)

MaxD == 2          \* input dimensions D range over 1..MaxD
MaxN == 2          \* rows of X and of X2 range over 1..MaxN
MaxCalls == 2      \* kernel operations applied to one target
MaxBasis == 2      \* basis functions handed to Gram_matrix: 0..MaxBasis

-----------------------------------------------------------------------------
(* Fixed-point reals with the IEEE special values.                         *)

SCALE == 1000
One == SCALE
Inf == 1000000000
NaN == Inf + 1
NegInf == 0 - Inf

IsFinite(a) == NegInf < a /\ a < Inf
Sign(a) == IF a > 0 THEN 1 ELSE IF a < 0 THEN -1 ELSE 0
Abs(a) == IF a < 0 THEN 0 - a ELSE a
SignedInf(s) == IF s > 0 THEN Inf ELSE NegInf

\* n / d rounded to the nearest integer, halves away from zero
RoundDiv(n, d) ==
    IF n >= 0 /\ d > 0 THEN (2 * n + d) \div (2 * d)
    ELSE Sign(n) * Sign(d) * ((2 * Abs(n) + Abs(d)) \div (2 * Abs(d)))

FNeg(a) == IF a = NaN THEN NaN ELSE 0 - a

FAdd(a, b) ==
    IF IsFinite(a) /\ IsFinite(b) THEN a + b
    ELSE IF a = NaN \/ b = NaN THEN NaN
    ELSE IF ~IsFinite(a) /\ ~IsFinite(b) THEN (IF a = b THEN a ELSE NaN)
    ELSE IF ~IsFinite(a) THEN a
    ELSE IF ~IsFinite(b) THEN b
    ELSE a + b

FSub(a, b) == FAdd(a, FNeg(b))

FMul(a, b) ==
    IF IsFinite(a) /\ IsFinite(b) THEN RoundDiv(a * b, SCALE)
    ELSE IF a = NaN \/ b = NaN THEN NaN
    ELSE IF ~IsFinite(a) \/ ~IsFinite(b)
         THEN (IF a = 0 \/ b = 0 THEN NaN ELSE SignedInf(Sign(a) * Sign(b)))
    ELSE RoundDiv(a * b, SCALE)

\* numpy's float division: x / 0 is +-inf (0 / 0 is nan), never an exception
FDiv(a, b) ==
    IF IsFinite(a) /\ IsFinite(b) /\ b # 0 THEN RoundDiv(a * SCALE, b)
    ELSE IF a = NaN \/ b = NaN THEN NaN
    ELSE IF ~IsFinite(a) /\ ~IsFinite(b) THEN NaN
    ELSE IF ~IsFinite(a) THEN SignedInf(Sign(a) * (IF b < 0 THEN -1 ELSE 1))
    ELSE IF ~IsFinite(b) THEN 0
    ELSE IF b = 0 THEN (IF a = 0 THEN NaN ELSE SignedInf(Sign(a)))
    ELSE RoundDiv(a * SCALE, b)

square(a) == FMul(a, a)

RECURSIVE ISqrtFrom(_, _)
\* the integer square root of n by Newton's iteration from x >= sqrt(n)
ISqrtFrom(n, x) ==
    LET y == (x + n \div x) \div 2
    IN  IF y >= x THEN x ELSE ISqrtFrom(n, y)

\* np.sqrt, rounded to the nearest representable value
sqrt(a) ==
    IF a = NaN \/ a = NegInf THEN NaN
    ELSE IF a = Inf THEN Inf
    ELSE IF a < 0 THEN NaN
    ELSE IF a = 0 THEN 0
    ELSE LET n == a * SCALE
             r == ISqrtFrom(n, IF a < SCALE THEN SCALE ELSE a)
         IN  IF n - r * r > r THEN r + 1 ELSE r

RECURSIVE ExpSeries(_, _, _)
\* sum over k >= i of (-f)^k / k!, given term = (-f)^i / i!, 0 <= f < 1
ExpSeries(f, term, i) ==
    IF term = 0 \/ i > 12 THEN 0
    ELSE term + ExpSeries(f, RoundDiv((0 - term) * f, SCALE * (i + 1)), i + 1)

RECURSIVE ExpWhole(_, _)
\* acc * e^(-q) for a whole number q
ExpWhole(acc, q) == IF q = 0 \/ acc = 0 THEN acc ELSE ExpWhole(RoundDiv(acc * 367879, 1000000), q - 1)

\* np.exp(-d) for d >= 0 (the only place the kernel exponentiates)
expneg(d) ==
    IF d = NaN THEN NaN
    ELSE IF d = Inf THEN 0
    ELSE IF d = NegInf THEN Inf
    ELSE ExpWhole(ExpSeries(d % SCALE, One, 0), d \div SCALE)

-----------------------------------------------------------------------------
(* Arrays.                                                                 *)

RECURSIVE SumTo(_, _)
\* s[1] + ... + s[n]
SumTo(s, n) == IF n = 0 THEN 0 ELSE FAdd(SumTo(s, n - 1), s[n])

\* np.sum of a vector
SumSeq(s) == SumTo(s, Cardinality(DOMAIN s))

\* np.sum of a matrix
SumMat(m) == SumSeq([i \in DOMAIN m |-> SumSeq(m[i])])

RECURSIVE TupleTo(_, _)
\* <<f[1], ..., f[n]>>, each entry computed once
TupleTo(f, n) == IF n = 0 THEN << >> ELSE Append(TupleTo(f, n - 1), f[n])

\* an ndarray of one, two, three axes: its entries, computed once
Array1(f) == TupleTo(f, Cardinality(DOMAIN f))
Array2(f) == Array1([i \in DOMAIN f |-> Array1(f[i])])
Array3(f) == Array1([i \in DOMAIN f |-> Array2(f[i])])

VecAdd(a, b) == [i \in DOMAIN a |-> FAdd(a[i], b[i])]
MatAdd(a, b) == [i \in DOMAIN a |-> VecAdd(a[i], b[i])]
VecFinite(a) == \A i \in DOMAIN a : IsFinite(a[i])
MatFinite(a) == \A i \in DOMAIN a : VecFinite(a[i])

\* np.hstack of a scalar and a vector
hstack(v, l) == <<v>> \o l

\* np.ones(n)
ones(n) == [i \in 1..n |-> One]
zeros(n) == [i \in 1..n |-> 0]
zerosMat(n, m) == [i \in 1..n |-> zeros(m)]

\* ndarray.flatten(): row-major
flatten(m) ==
    IF m = << >> THEN << >>
    ELSE LET q == Len(m[1])
         IN  [k \in 1..(Len(m) * q) |-> m[((k - 1) \div q) + 1][((k - 1) % q) + 1]]

\* ndarray.reshape(n, q): row-major
reshape(s, n, q) == [i \in 1..n |-> [j \in 1..q |-> s[(i - 1) * q + j]]]

\* the array a view x[start:] shows, read through the heap
Deref(h, view) == SubSeq(h[view.base], view.start + 1, Len(h[view.base]))

-----------------------------------------------------------------------------
(* The exponential kernel object: construction and parameters.             *)

\* an optional array argument: None, or the array given
None == [given |-> FALSE, val |-> << >>]
Some(a) == [given |-> TRUE, val |-> a]

\* the values a hyperparameter or a coordinate is drawn from: 1.0 and 2.0
ParamVals == {One, 2 * One}

RECURSIVE SeqsOfLen(_, _)
SeqsOfLen(S, n) ==
    IF n = 0 THEN {<< >>}
    ELSE {<<a>> \o t : a \in S, t \in SeqsOfLen(S, n - 1)}

\* self.<fld> = val
SetAttr(self, fld, val) ==
    [f \in (DOMAIN self) \cup {fld} |-> IF f = fld THEN val ELSE self[f]]

\* the value of self.lengthscale, a view, read through the heap
Lengthscale(self, h) == Deref(h, self.lengthscale)

\* _set_params with the assertion after the two assignments
set_params_assert_last(self, h, xref) ==
    LET x == h[xref]
    IN  [self |-> SetAttr(SetAttr(self, "variance", x[1]),
                          "lengthscale", [base |-> xref, start |-> 1]),
         raised |-> IF Len(x) # self.Nparam THEN "AssertionError" ELSE "none"]

\* _set_params that keeps the variance it has when it has one
set_params_keep_variance(self, h, xref) ==
    LET x == h[xref]
    IN  IF Len(x) # self.Nparam
        THEN [self |-> self, raised |-> "AssertionError"]
        ELSE [self |-> SetAttr(SetAttr(self, "variance",
                                       IF "variance" \in DOMAIN self
                                       THEN self.variance ELSE x[1]),
                               "lengthscale", [base |-> xref, start |-> 1]),
              raised |-> "none"]

\* _set_params(self, x), x the array named xref of the heap h
set_params(self, h, xref) ==
    LET x == h[xref]
    IN  IF Len(x) # self.Nparam
        THEN [self |-> self, raised |-> "AssertionError"]
        ELSE [self |-> SetAttr(SetAttr(self, "variance", x[1]),
                               "lengthscale", [base |-> xref, start |-> 1]),
              raised |-> "none"]

\* _get_params(self)
get_params(self, h) == hstack(self.variance, Lengthscale(self, h))

\* 'lengthscale_%i' % i
lengthscale_name(i) == "lengthscale_" \o ToString(i)

\* _get_param_names(self)
get_param_names(self, h) ==
    IF self.Nparam = 2
    THEN <<"variance", "lengthscale">>
    ELSE <<"variance">> \o
         [k \in 1..Len(Lengthscale(self, h)) |-> lengthscale_name(k - 1)]

\* __init__(self, D, variance, lengthscale, ARD): the object, the heap holding
\* the array np.hstack((variance, lengthscale)) as "p", and what was raised
init(h, Din, variancein, lengthscalein, ARDin) ==
    LET s0 == [D |-> Din, ARD |-> ARDin,
               Nparam |-> IF ARDin = FALSE THEN 2 ELSE Din + 1,
               name |-> IF ARDin = FALSE THEN "exp" ELSE "exp_ARD"]
        want == IF ARDin = FALSE THEN 1 ELSE Din
    IN  IF lengthscalein # None /\ Len(lengthscalein.val) # want
        THEN [self |-> s0, heap |-> h, raised |-> "AssertionError"]
        ELSE LET l == IF lengthscalein # None THEN lengthscalein.val ELSE ones(want)
                 h1 == [h EXCEPT !.p = hstack(variancein, l)]
                 r == set_params(s0, h1, "p")
             IN  [self |-> r.self, heap |-> h1, raised |-> r.raised]

NoKern == [name |-> "unbuilt"]
Built(k) == "variance" \in DOMAIN k
NoCall == [op |-> "none"]
NoGplvm == [N |-> 0]
NoGram == [pc |-> "off"]

\* what a call leaves in last.pre: the parameters before the call
Params(k, h) == IF Built(k) THEN get_params(k, h) ELSE << >>

InitParams ==
    /\ kern = NoKern
    /\ raised = "none"
    /\ heap = [x |-> << >>, p |-> << >>]
    /\ X = << >>
    /\ target = << >>
    /\ last = NoCall
    /\ total = << >>
    /\ gplvm = NoGplvm
    /\ gram = NoGram

\* k = exponential(D, variance, lengthscale, ARD)
Construct ==
    /\ kern = NoKern /\ raised = "none"
    /\ \E Din \in 1..MaxD, v \in ParamVals, ARDin \in BOOLEAN,
          l \in {None} \cup
                {Some(a) : a \in UNION {SeqsOfLen(ParamVals, n) : n \in 0..(MaxD + 1)}} :
          LET r == init(heap, Din, v, l, ARDin)
          IN  /\ kern' = r.self
              /\ heap' = r.heap
              /\ raised' = r.raised
              /\ last' = [op |-> "init", lengthscale |-> l, variance |-> v]
    /\ UNCHANGED <<X, target, total, gplvm, gram>>

\* k._set_params(v) with an array v the caller has just made
SetParams ==
    /\ Built(kern)
    /\ \E v \in UNION {SeqsOfLen(ParamVals, n) : n \in 1..(MaxD + 2)} :
          LET h1 == [heap EXCEPT !.x = v]
              r == set_params(kern, h1, "x")
          IN  /\ kern' = r.self
              /\ raised' = r.raised
              \* a refused array is not kept by the kernel: the heap keeps
              \* the array the kernel still looks into
              /\ heap' = IF r.raised = "none" THEN h1 ELSE heap
              /\ last' = [op |-> "set_params", arg |-> v,
                          pre |-> Params(kern, heap)]
    /\ UNCHANGED <<X, target, total, gplvm, gram>>

\* k._set_params(x) once more with the array x the caller still holds
SetParamsAgain ==
    /\ Built(kern) /\ heap.x # << >>
    /\ LET r == set_params(kern, heap, "x")
       IN  /\ kern' = r.self
           /\ raised' = r.raised
           /\ last' = [op |-> "set_params", arg |-> heap.x,
                       pre |-> Params(kern, heap)]
    /\ UNCHANGED <<heap, X, target, total, gplvm, gram>>

\* x[i] = v by the caller, in place, on the array it passed to _set_params
CallerWrite ==
    /\ Built(kern)
    /\ \E i \in 1..Len(heap.x), v \in ParamVals :
          /\ heap.x[i] # v
          /\ heap' = [heap EXCEPT !.x[i] = v]
    /\ last' = [op |-> "write"]
    /\ raised' = "none"
    /\ UNCHANGED <<kern, X, target, total, gplvm, gram>>

\* k._get_params()
GetParams ==
    /\ Built(kern)
    /\ last' = [op |-> "get_params", out |-> get_params(kern, heap),
                prev |-> last.op, prevraised |-> raised,
                prevarg |-> IF last.op = "set_params" THEN last.arg ELSE << >>,
                prevpre |-> IF last.op = "set_params" THEN last.pre ELSE << >>]
    /\ raised' = "none"
    /\ UNCHANGED <<kern, heap, X, target, total, gplvm, gram>>

\* k._get_param_names()
GetParamNames ==
    /\ Built(kern)
    /\ last' = [op |-> "get_param_names", out |-> get_param_names(kern, heap)]
    /\ raised' = "none"
    /\ UNCHANGED <<kern, heap, X, target, total, gplvm, gram>>

NextParams ==
    \/ Construct
    \/ SetParams
    \/ SetParamsAgain
    \/ CallerWrite
    \/ GetParams
    \/ GetParamNames

SpecParams == InitParams /\ [][NextParams]_vars

-----------------------------------------------------------------------------
(* Claims about the kernel's parameters, checked under SpecParams.         *)

\* C2: get_params() called right after a successful set_params(v) returns
\* exactly v, whatever the parameters were before, and set_params(v) leaves
\* variance = v[0] and lengthscale = v[1:].
C2_RoundTrip ==
    /\ (last.op = "set_params" /\ raised = "none") =>
          /\ kern.variance = last.arg[1]
          /\ Lengthscale(kern, heap) = Tail(last.arg)
    /\ (last.op = "get_params" /\ last.prev = "set_params"
          /\ last.prevraised = "none") =>
          last.out = last.prevarg

\* C2 witness: a get_params right after a set_params(v) of an ARD kernel
\* whose parameters before the call differed from v in every entry.
C2_Witness ==
    /\ last.op = "get_params" /\ last.prev = "set_params"
    /\ last.prevraised = "none"
    /\ kern.ARD /\ Len(last.out) = 3
    /\ \A i \in 1..3 : last.prevpre[i] # last.prevarg[i]
    /\ last.out = last.prevarg

\* C3: set_params raises AssertionError exactly when the vector's length is
\* not Nparam (2 when not ARD, D + 1 when ARD) and then leaves variance and
\* lengthscale as they were; construction raises exactly when a lengthscale
\* is supplied whose length is not 1 (not ARD) or D (ARD).
C3_ShapeChecks ==
    /\ last.op = "set_params" =>
          /\ (raised = "AssertionError") <=>
                (Len(last.arg) # (IF kern.ARD THEN kern.D + 1 ELSE 2))
          /\ raised \in {"none", "AssertionError"}
          /\ raised = "AssertionError" => Params(kern, heap) = last.pre
    /\ last.op = "init" =>
          /\ (raised = "AssertionError") <=>
                /\ last.lengthscale.given
                /\ Len(last.lengthscale.val) # (IF kern.ARD THEN kern.D ELSE 1)
          /\ raised = "AssertionError" => ~Built(kern)
          /\ raised = "none" =>
                /\ Built(kern)
                /\ kern.Nparam = (IF kern.ARD THEN kern.D + 1 ELSE 2)

\* C3 witness: a set_params refused for a vector one entry too long whose
\* entries all differ from the parameters the kernel keeps.
C3_Witness ==
    /\ last.op = "set_params" /\ raised = "AssertionError"
    /\ Len(last.arg) = kern.Nparam + 1
    /\ \A i \in 1..kern.Nparam : last.arg[i] # last.pre[i]
    /\ get_params(kern, heap) = last.pre

\* C4: param_names() has the length of get_params(), starts with "variance",
\* and continues with "lengthscale" when ARD is false and with
\* "lengthscale_0" .. "lengthscale_<D-1>" when ARD is true.
C4_NamesAlign ==
    last.op = "get_param_names" =>
        /\ Len(last.out) = Len(get_params(kern, heap))
        /\ last.out[1] = "variance"
        /\ Tail(last.out) =
              IF kern.ARD
              THEN [k \in 1..kern.D |-> "lengthscale_" \o ToString(k - 1)]
              ELSE <<"lengthscale">>

-----------------------------------------------------------------------------
(* The exponential kernel's covariance and derivative operations.  Each    *)
(* operator takes the target array and gives the target after the call.    *)

\* if X2 is None: X2 = X
OrX(Xa, X2) == IF X2 = None THEN Xa ELSE X2.val

\* self.lengthscale broadcast along the last axis: entry d of a (1,) or (D,) array
ls(self, h, d) ==
    LET l == Lengthscale(self, h) IN IF Len(l) = 1 THEN l[1] ELSE l[d]

\* X[:,None,:] - X2[None,:,:]
Diff(Xa, Xb) ==
    Array3([i \in DOMAIN Xa |-> [j \in DOMAIN Xb |->
        [d \in DOMAIN Xa[i] |-> FSub(Xa[i][d], Xb[j][d])]]])

\* np.sqrt(np.sum(np.square((X[:,None,:]-X2[None,:,:])/self.lengthscale),-1))
dist(self, h, Xa, Xb) ==
    LET df == Diff(Xa, Xb)
    IN  Array2([i \in DOMAIN Xa |-> [j \in DOMAIN Xb |->
            sqrt(SumSeq([d \in DOMAIN df[i][j] |->
                            square(FDiv(df[i][j][d], ls(self, h, d)))]))]])

\* np.where(dist != 0., dist, np.inf) with the zero test left out
where_nonzero_unguarded(r) == r

\* np.where(dist != 0., dist, np.inf), one entry
where_nonzero(r) == IF r # 0 THEN r ELSE Inf

\* K with np.add's output written over the target instead of added to it
K_overwrite(self, h, Xa, X2, tgt) ==
    LET Xb == OrX(Xa, X2)
        r == dist(self, h, Xa, Xb)
    IN  [i \in DOMAIN tgt |-> [j \in DOMAIN tgt[i] |->
            FMul(self.variance, expneg(r[i][j]))]]

\* K(self, X, X2, target)
K(self, h, Xa, X2, tgt) ==
    LET Xb == OrX(Xa, X2)
        r == dist(self, h, Xa, Xb)
    IN  [i \in DOMAIN tgt |-> [j \in DOMAIN tgt[i] |->
            FAdd(FMul(self.variance, expneg(r[i][j])), tgt[i][j])]]

\* Kdiag(self, X, target)
Kdiag(self, h, Xa, tgt) == [i \in DOMAIN tgt |-> FAdd(tgt[i], self.variance)]

\* invdist = 1./np.where(dist!=0.,dist,np.inf)
invdist(r) ==
    Array2([i \in DOMAIN r |-> [j \in DOMAIN r[i] |->
        FDiv(One, where_nonzero(r[i][j]))]])

\* dist2M = np.square(X[:,None,:]-X2[None,:,:])/self.lengthscale**3
dist2M(self, h, Xa, Xb) ==
    LET df == Diff(Xa, Xb)
    IN  Array3([i \in DOMAIN Xa |-> [j \in DOMAIN Xb |-> [d \in DOMAIN df[i][j] |->
            FDiv(square(df[i][j][d]),
                 FMul(FMul(ls(self, h, d), ls(self, h, d)), ls(self, h, d)))]]])

\* dvar = np.exp(-dist)
dvar(r) == Array2([i \in DOMAIN r |-> [j \in DOMAIN r[i] |-> expneg(r[i][j])]])

\* a * b entry by entry, two matrices of one shape
MatMul(a, b) ==
    Array2([i \in DOMAIN a |-> [j \in DOMAIN a[i] |-> FMul(a[i][j], b[i][j])]])

\* ARD: dl = self.variance*dvar[:,:,None]*dist2M*invdist[:,:,None]
dl_ARD(self, dv, d2, iv) ==
    Array3([i \in DOMAIN d2 |-> [j \in DOMAIN d2[i] |-> [d \in DOMAIN d2[i][j] |->
        FMul(FMul(FMul(self.variance, dv[i][j]), d2[i][j][d]), iv[i][j])]]])

\* not ARD: dl = self.variance*dvar*dist2M.sum(-1)*invdist
dl_iso(self, dv, d2, iv) ==
    Array2([i \in DOMAIN d2 |-> [j \in DOMAIN d2[i] |->
        FMul(FMul(FMul(self.variance, dv[i][j]), SumSeq(d2[i][j])), iv[i][j])]])

\* dl*partial[:,:,None]
TimesPartial3(a, partial) ==
    Array3([i \in DOMAIN a |-> [j \in DOMAIN a[i] |-> [d \in DOMAIN a[i][j] |->
        FMul(a[i][j][d], partial[i][j])]]])

\* a.sum(0).sum(0) of an array of three axes: entry d
SumPairs3(a, d) ==
    SumSeq([j \in DOMAIN a[1] |-> SumSeq([i \in DOMAIN a |-> a[i][j][d]])])

\* dK_dtheta(self, partial, X, X2, target)
dK_dtheta(self, h, partial, Xa, X2, tgt) ==
    LET Xb == OrX(Xa, X2)
        r == dist(self, h, Xa, Xb)
        iv == invdist(r)
        d2 == dist2M(self, h, Xa, Xb)
        dv == dvar(r)
        t0 == FAdd(tgt[1], SumMat(MatMul(dv, partial)))
    IN  IF self.ARD = TRUE
        THEN LET a == TimesPartial3(dl_ARD(self, dv, d2, iv), partial)
             IN  [k \in DOMAIN tgt |->
                    IF k = 1 THEN t0 ELSE FAdd(tgt[k], SumPairs3(a, k - 1))]
        ELSE LET a == dl_iso(self, dv, d2, iv)
             IN  [k \in DOMAIN tgt |->
                    IF k = 1 THEN t0
                    ELSE IF k = 2 THEN FAdd(tgt[2], SumMat(MatMul(a, partial)))
                    ELSE tgt[k]]

\* dKdiag_dtheta with the sum broadcast over the whole target
dKdiag_dtheta_all(self, partial, Xa, tgt) ==
    [k \in DOMAIN tgt |-> FAdd(tgt[k], SumSeq(partial))]

\* dKdiag_dtheta(self, partial, X, target); partial is the vector of the
\* diagonal's upstream gradients
dKdiag_dtheta(self, partial, Xa, tgt) ==
    [k \in DOMAIN tgt |-> IF k = 1 THEN FAdd(tgt[1], SumSeq(partial)) ELSE tgt[k]]

\* ddist_dX = (X[:,None,:]-X2[None,:,:])/self.lengthscale**2/np.where(dist!=0.,dist,np.inf)
ddist_dX(self, h, Xa, Xb, r) ==
    LET df == Diff(Xa, Xb)
    IN  Array3([i \in DOMAIN Xa |-> [j \in DOMAIN Xb |-> [d \in DOMAIN df[i][j] |->
            FDiv(FDiv(df[i][j][d], FMul(ls(self, h, d), ls(self, h, d))),
                 where_nonzero(r[i][j]))]]])

\* dK_dX = - np.transpose(self.variance*np.exp(-dist)*ddist_dX,(1,0,2))
dK_dX_array(self, h, Xa, Xb) ==
    LET r == dist(self, h, Xa, Xb)
        dd == ddist_dX(self, h, Xa, Xb, r)
    IN  Array3([j \in DOMAIN Xb |-> [i \in DOMAIN Xa |-> [d \in DOMAIN dd[i][j] |->
            FNeg(FMul(FMul(self.variance, expneg(r[i][j])), dd[i][j][d]))]]])

\* dK_dX*partial.T[:,:,None]
TimesPartialT(a, partial) ==
    Array3([j \in DOMAIN a |-> [i \in DOMAIN a[j] |-> [d \in DOMAIN a[j][i] |->
        FMul(a[j][i][d], partial[i][j])]]])

\* dK_dX(self, partial, X, X2, target):
\* target += np.sum(dK_dX*partial.T[:,:,None],0)
dK_dX(self, h, partial, Xa, X2, tgt) ==
    LET Xb == OrX(Xa, X2)
        a == TimesPartialT(dK_dX_array(self, h, Xa, Xb), partial)
    IN  [i \in DOMAIN tgt |-> [d \in DOMAIN tgt[i] |->
            FAdd(tgt[i][d], SumSeq([j \in DOMAIN a |-> a[j][i][d]]))]]

\* dKdiag_dX(self, X, target): pass
dKdiag_dX(self, Xa, tgt) == tgt

-----------------------------------------------------------------------------
(* The kernel operations called by a caller that accumulates into one      *)
(* target: the caller holds X, picks X2 and partial, allocates a target    *)
(* with some content T0, and calls operations of the target's shape.       *)

\* the rows inputs are made of: row k of dimension n is (k*d mod 4) for d = 1..n
Row(n, k) == [d \in 1..n |-> ((k * d) % 4) * One]

\* the input matrices X: 1..MaxN rows, each Row 0 or Row 1
XChoices(n) ==
    UNION {{[i \in 1..m |-> Row(n, pick[i])] : pick \in [1..m -> {0, 1}]} : m \in 1..MaxN}

\* the second inputs: None, or the MaxN rows Row 0 .. Row MaxN-1
X2Choices(n) == {None, Some([j \in 1..MaxN |-> Row(n, j - 1)])}

\* the lengthscale a kernel is built with when not the default: 2.0 (and
\* 1.0 in the even dimensions of an ARD kernel)
KernelLengthscale(n, ard) ==
    Some(IF ard THEN [d \in 1..n |-> IF d % 2 = 1 THEN 2 * One ELSE One]
         ELSE <<2 * One>>)

\* arrays with distinct entries, none zero: entry (i, j) is i + j/2 - 7/4
RampMat(n, m) == [i \in 1..n |-> [j \in 1..m |-> (4 * i + 2 * j - 7) * (One \div 4)]]
RampVec(n) == [i \in 1..n |-> (4 * i - 5) * (One \div 4)]
UnitMat(n, m, a, b) == [i \in 1..n |-> [j \in 1..m |-> IF i = a /\ j = b THEN One ELSE 0]]

\* the upstream gradients: distinct entries, or all weight on one pair
PartialChoices(n, m) == {RampMat(n, m), UnitMat(n, m, 1, 1)}

\* the partial of a diagonal call: one upstream gradient per row of X
PartialDiag(partial) == [i \in 1..Len(partial) |-> partial[i][1]]

NumRows(X2) == IF X2 = None THEN Len(X) ELSE Len(X2.val)

\* the shape an operation's target must have
ShapeOf(op) ==
    CASE op = "K" -> "NxM"
      [] op = "Kdiag" -> "N"
      [] op \in {"dK_dtheta", "dKdiag_dtheta"} -> "Nparam"
      [] op \in {"dK_dX", "dKdiag_dX"} -> "NxD"

IsMatrixShape(shape) == shape \in {"NxM", "NxD"}

\* np.zeros of a shape
ZerosOf(shape, X2) ==
    CASE shape = "NxM" -> zerosMat(Len(X), NumRows(X2))
      [] shape = "N" -> zeros(Len(X))
      [] shape = "Nparam" -> zeros(kern.Nparam)
      [] shape = "NxD" -> zerosMat(Len(X), kern.D)

RampOf(shape, X2) ==
    CASE shape = "NxM" -> RampMat(Len(X), NumRows(X2))
      [] shape = "N" -> RampVec(Len(X))
      [] shape = "Nparam" -> RampVec(kern.Nparam)
      [] shape = "NxD" -> RampMat(Len(X), kern.D)

ArrAdd(shape, a, b) == IF IsMatrixShape(shape) THEN MatAdd(a, b) ELSE VecAdd(a, b)
ArrFinite(shape, a) == IF IsMatrixShape(shape) THEN MatFinite(a) ELSE VecFinite(a)

\* the call of operation op on the target tgt
Apply(op, tgt) ==
    CASE op = "K" -> K(kern, heap, X, last.X2, tgt)
      [] op = "Kdiag" -> Kdiag(kern, heap, X, tgt)
      [] op = "dK_dtheta" -> dK_dtheta(kern, heap, last.partial, X, last.X2, tgt)
      [] op = "dKdiag_dtheta" -> dKdiag_dtheta(kern, PartialDiag(last.partial), X, tgt)
      [] op = "dK_dX" -> dK_dX(kern, heap, last.partial, X, last.X2, tgt)
      [] op = "dKdiag_dX" -> dKdiag_dX(kern, X, tgt)

InitEval ==
    /\ \E Din \in 1..MaxD, ARDin \in BOOLEAN, dflt \in BOOLEAN :
          \* exponential(D, ARD=ARD) or exponential(D, 2.0, lengthscale, ARD)
          LET v == IF dflt THEN One ELSE 2 * One
              l == IF dflt THEN None ELSE KernelLengthscale(Din, ARDin)
              r == init([x |-> << >>, p |-> << >>], Din, v, l, ARDin)
          IN  /\ r.raised = "none"
              /\ kern = r.self
              /\ heap = r.heap
              /\ X \in XChoices(Din)
    /\ raised = "none"
    /\ target = << >>
    /\ last = NoCall
    /\ total = << >>
    /\ gplvm = NoGplvm
    /\ gram = NoGram

\* the caller picks X2 and partial and allocates a target holding T0
Allocate ==
    /\ \E shape \in {"NxM", "N", "Nparam", "NxD"}, X2 \in X2Choices(kern.D) :
       \E partial \in PartialChoices(Len(X), NumRows(X2)), ramp \in BOOLEAN :
          LET T0 == IF ramp THEN RampOf(shape, X2) ELSE ZerosOf(shape, X2)
          IN  /\ target' = T0
              /\ total' = ZerosOf(shape, X2)
              /\ last' = [op |-> "alloc", shape |-> shape, X2 |-> X2,
                          partial |-> partial, T0 |-> T0, pre |-> T0,
                          contrib |-> ZerosOf(shape, X2), calls |-> 0,
                          kern0 |-> get_params(kern, heap), X0 |-> X]
    /\ last.op = "none"
    /\ UNCHANGED <<kern, raised, heap, X, gplvm, gram>>

\* one kernel operation of the target's shape, called on the target
Call(op) ==
    /\ last.op # "none"
    /\ last.calls < MaxCalls
    /\ ShapeOf(op) = last.shape
    /\ target' = Apply(op, target)
    /\ LET c == Apply(op, ZerosOf(last.shape, last.X2))
       IN  /\ total' = ArrAdd(last.shape, total, c)
           /\ last' = [last EXCEPT !.op = op, !.pre = target, !.contrib = c,
                                   !.calls = @ + 1]
    /\ UNCHANGED <<kern, raised, heap, X, gplvm, gram>>

\* K(X, X2, target) on an allocated target
CallK ==
    /\ last.op # "none"
    /\ Call("K")

\* Kdiag(X, target) on an allocated target
CallKdiag ==
    /\ last.op # "none"
    /\ Call("Kdiag")

\* dK_dtheta(partial, X, X2, target) on an allocated target
CalldK_dtheta ==
    /\ last.op # "none"
    /\ Call("dK_dtheta")

\* dKdiag_dtheta(partial, X, target) on an allocated target
CalldKdiag_dtheta ==
    /\ last.op # "none"
    /\ Call("dKdiag_dtheta")

\* dK_dX(partial, X, X2, target) on an allocated target
CalldK_dX ==
    /\ last.op # "none"
    /\ Call("dK_dX")

\* dKdiag_dX(X, target) on an allocated target
CalldKdiag_dX ==
    /\ last.op # "none"
    /\ Call("dKdiag_dX")

NextEval ==
    \/ Allocate
    \/ CallK
    \/ CallKdiag
    \/ CalldK_dtheta
    \/ CalldKdiag_dtheta
    \/ CalldK_dX
    \/ CalldKdiag_dX

SpecEval == InitEval /\ [][NextEval]_vars

-----------------------------------------------------------------------------
(* Claims about the kernel operations, checked under SpecEval.             *)

EvalOps == {"K", "Kdiag", "dK_dtheta", "dKdiag_dtheta", "dK_dX", "dKdiag_dX"}

\* C1: after every kernel operation the target holds what it held before the
\* call plus what the same call puts into a zero target, and after any
\* sequence of calls it holds T0 plus the sum of those contributions.
C1_Accumulate ==
    last.op \in EvalOps =>
        /\ target = ArrAdd(last.shape, last.pre, last.contrib)
        /\ target = ArrAdd(last.shape, last.T0, total)

\* C1 witness: the second call on a target that began non-zero, a dK_dtheta
\* of an ARD kernel whose contribution to a lengthscale entry is not zero,
\* after a first call that had already changed the target.
C1_Witness ==
    /\ last.op = "dK_dtheta" /\ last.calls = 2 /\ kern.ARD
    /\ last.T0[1] # 0 /\ last.pre # last.T0
    /\ last.contrib[1] # 0 /\ last.contrib[2] # 0
    /\ target # last.contrib

\* rows i of X and j of X2 (of X when X2 is None) are identical
ZeroPair(i, j) == X[i] = OrX(X, last.X2)[j]

\* what the pairs add to the lengthscale entries in dK_dtheta:
\* dl*partial[:,:,None] when ARD, dl*partial when not
LengthscaleTerms ==
    LET Xb == OrX(X, last.X2)
        r == dist(kern, heap, X, Xb)
        iv == invdist(r)
        d2 == dist2M(kern, heap, X, Xb)
        dv == dvar(r)
    IN  IF kern.ARD = TRUE
        THEN TimesPartial3(dl_ARD(kern, dv, d2, iv), last.partial)
        ELSE [i \in DOMAIN X |-> [j \in DOMAIN Xb |->
                <<MatMul(dl_iso(kern, dv, d2, iv), last.partial)[i][j]>>]]

\* what the pairs add to the variance entry in dK_dtheta: dvar*partial
VarianceTerms == MatMul(dvar(dist(kern, heap, X, OrX(X, last.X2))), last.partial)

\* what the pairs add to dK_dX's target: dK_dX*partial.T[:,:,None]
InputTerms == TimesPartialT(dK_dX_array(kern, heap, X, OrX(X, last.X2)), last.partial)

\* C5: a pair of identical rows adds exactly 0 to the lengthscale entries of
\* dK_dtheta's target and to dK_dX's target, and partial[i,j] * exp(0) to the
\* variance entry; no entry of either target becomes NaN or infinite.
C5_ZeroDistance ==
    /\ last.op = "dK_dtheta" =>
          LET lt == LengthscaleTerms
              vt == VarianceTerms
          IN  /\ \A i \in DOMAIN X, j \in 1..NumRows(last.X2) :
                    ZeroPair(i, j) =>
                       /\ \A d \in DOMAIN lt[i][j] : lt[i][j][d] = 0
                       /\ vt[i][j] = last.partial[i][j]
              /\ VecFinite(target)
              /\ (last.partial = UnitMat(Len(X), NumRows(last.X2), 1, 1)
                    /\ ZeroPair(1, 1)) =>
                       last.contrib = [k \in 1..kern.Nparam |-> IF k = 1 THEN One ELSE 0]
    /\ last.op = "dK_dX" =>
          LET it == InputTerms
          IN  /\ \A i \in DOMAIN X, j \in 1..NumRows(last.X2) :
                    ZeroPair(i, j) => \A d \in 1..kern.D : it[j][i][d] = 0
              /\ MatFinite(target)
              /\ (last.partial = UnitMat(Len(X), NumRows(last.X2), 1, 1)
                    /\ ZeroPair(1, 1)) =>
                       last.contrib = zerosMat(Len(X), kern.D)

\* C5 witness: a dK_dtheta with X2 absent on two different rows, so that the
\* self-pairs are at distance zero and the other pairs are not, with a
\* non-zero weight on every pair and a non-zero sum added to a lengthscale
\* entry of an ARD kernel.
C5_Witness ==
    /\ last.op = "dK_dtheta" /\ last.X2 = None /\ kern.ARD
    /\ Len(X) = 2 /\ X[1] # X[2]
    /\ last.partial = RampMat(2, 2)
    /\ last.contrib[2] # 0
    /\ ZeroPair(1, 1) /\ ZeroPair(2, 2)

\* C6: dKdiag_dtheta adds the sum of partial to target[0] and leaves the
\* other entries as they were; dKdiag_dX leaves the target as it was; the
\* kernel's parameters and X are what they were when the target was made.
C6_DiagonalFrame ==
    /\ last.op = "dKdiag_dtheta" =>
          /\ target[1] = FAdd(last.pre[1], SumSeq(PartialDiag(last.partial)))
          /\ \A k \in 2..Len(target) : target[k] = last.pre[k]
          /\ Len(target) = Len(last.pre)
    /\ last.op = "dKdiag_dX" => target = last.pre
    /\ last.op \in {"dKdiag_dtheta", "dKdiag_dX"} =>
          /\ get_params(kern, heap) = last.kern0
          /\ X = last.X0

\* C6 witness: a dKdiag_dtheta on an ARD kernel's three-entry target whose
\* lengthscale entries are not zero and whose variance entry has changed.
C6_Witness ==
    /\ last.op = "dKdiag_dtheta" /\ kern.ARD /\ Len(target) = 3
    /\ target[1] # last.pre[1]
    /\ last.pre[2] # 0 /\ last.pre[3] # 0

-----------------------------------------------------------------------------
(* GPLVM: the latent coordinates X (N x Q) are parameters beside the        *)
(* kernel's.  The model's kernel is the exponential kernel object kern     *)
(* with D = Q; the caller's flat parameter array is heap.x, the kernel's   *)
(* own parameter array heap.p, and heap.X the array self.X owns.           *)

\* the value of self.X: its own array, or the view of x[:N*Q] reshaped
XVal(self, h) ==
    IF self.X.base = "x"
    THEN reshape(SubSeq(h.x, 1, self.N * self.Q), self.N, self.Q)
    ELSE h.X

\* 'X_%i_%i' % (n, q)
X_name(n, q) == "X_" \o ToString(n) \o "_" \o ToString(q)

\* self.kern._get_param_names_transformed(): no parameter is constrained or tied
kern_get_param_names_transformed(k, h) == get_param_names(k, h)

\* self.kern._get_params_transformed(): no parameter is constrained or tied
kern_get_params_transformed(k, h) == get_params(k, h)

\* GP_regression._set_params(self, p): the kernel takes a copy of p
GP_set_params(k, h, p) ==
    LET h1 == [h EXCEPT !.p = p]
        r == set_params(k, h1, "p")
    IN  IF r.raised # "none"
        THEN [kern |-> k, heap |-> h, raised |-> r.raised]
        ELSE [kern |-> r.self, heap |-> h1, raised |-> "none"]

\* self.kern.dK_dtheta(partial, X): the part's contribution to a zero target
kern_dK_dtheta(k, h, partial, Xa) ==
    dK_dtheta(k, h, partial, Xa, None, zeros(k.Nparam))

\* self.kern.dK_dX(partial, X): the part's contribution to a zero target
kern_dK_dX(k, h, partial, Xa) ==
    dK_dX(k, h, partial, Xa, None, zerosMat(Len(Xa), Len(Xa[1])))

\* GPLVM._get_param_names(self)
GPLVM_get_param_names(self, k, h) ==
    [c \in 1..(self.N * self.Q) |->
        X_name((c - 1) % self.N, (c - 1) \div self.N)]
    \o kern_get_param_names_transformed(k, h)

\* GPLVM._get_params(self)
GPLVM_get_params(self, k, h) ==
    flatten(XVal(self, h)) \o kern_get_params_transformed(k, h)

\* GPLVM._set_params without the .copy(): self.X stays a view of x
GPLVM_set_params_nocopy(self, k, h) ==
    LET x == h.x
        size == self.N * self.Q
    IN  IF Len(x) < size
        THEN [self |-> self, kern |-> k, heap |-> h, raised |-> "ValueError",
              baseArg |-> << >>]
        ELSE LET self1 == [self EXCEPT !.X = [base |-> "x"]]
                 p == SubSeq(x, size + 1, Len(x))
                 b == GP_set_params(k, h, p)
             IN  [self |-> self1, kern |-> b.kern, heap |-> b.heap,
                  raised |-> b.raised, baseArg |-> p]

\* GPLVM._set_params(self, x), x the caller's array heap.x
GPLVM_set_params(self, k, h) ==
    LET x == h.x
        size == self.N * self.Q
    IN  IF Len(x) < size
        \* x[:size] is too short for reshape(N, Q)
        THEN [self |-> self, kern |-> k, heap |-> h, raised |-> "ValueError",
              baseArg |-> << >>]
        ELSE LET h1 == [h EXCEPT !.X = reshape(SubSeq(x, 1, size), self.N, self.Q)]
                 self1 == [self EXCEPT !.X = [base |-> "X"]]
                 p == SubSeq(x, size + 1, Len(x))
                 b == GP_set_params(k, h1, p)
             IN  [self |-> self1, kern |-> b.kern, heap |-> b.heap,
                  raised |-> b.raised, baseArg |-> p]

\* dL_dX.T.flatten(): the entries column by column
flatten_columns(m) ==
    LET n == Len(m)
    IN  [c \in 1..(n * Len(m[1])) |-> m[((c - 1) % n) + 1][((c - 1) \div n) + 1]]

\* _log_likelihood_gradients with dL_dX flattened column by column
GPLVM_gradients_by_column(self, k, h, dL_dK) ==
    LET Xa == XVal(self, h)
        dL_dtheta == kern_dK_dtheta(k, h, dL_dK, Xa)
        g == kern_dK_dX(k, h, dL_dK, Xa)
        dL_dX == [n \in DOMAIN g |-> [q \in DOMAIN g[n] |-> FMul(2 * One, g[n][q])]]
    IN  flatten_columns(dL_dX) \o dL_dtheta

\* GPLVM._log_likelihood_gradients(self), dL_dK the base model's self.dL_dK()
GPLVM_log_likelihood_gradients(self, k, h, dL_dK) ==
    LET Xa == XVal(self, h)
        dL_dtheta == kern_dK_dtheta(k, h, dL_dK, Xa)
        g == kern_dK_dX(k, h, dL_dK, Xa)
        dL_dX == [n \in DOMAIN g |-> [q \in DOMAIN g[n] |-> FMul(2 * One, g[n][q])]]
    IN  flatten(dL_dX) \o dL_dtheta

\* the latent matrices: n rows of dimension q, all Row 1, or Row 1 .. Row n,
\* or Row n .. Row 1
LatentChoices(n, q) ==
    {[i \in 1..n |-> Row(q, 1)], [i \in 1..n |-> Row(q, i)],
     [i \in 1..n |-> Row(q, n + 1 - i)]}

\* the hyperparameter vectors a caller appends: right (two entries), one
\* entry short, one entry long
ThetaChoices == {<<2 * One, 2 * One>>, <<One>>, <<One, One, One>>}

\* the arrays a caller hands to GPLVM._set_params: a latent matrix flattened
\* and a hyperparameter vector, or a latent matrix with its last entry missing
ParamArrays(n, q) ==
    {flatten(m) \o t : m \in LatentChoices(n, q), t \in ThetaChoices}
    \cup {SubSeq(flatten(m), 1, n * q - 1) : m \in LatentChoices(n, q)}

InitGPLVM ==
    /\ \E n \in 1..MaxN, q \in 1..MaxD :
          LET r == init([x |-> << >>, p |-> << >>, X |-> << >>], q, One, None, FALSE)
          IN  /\ kern = r.self
              /\ \E m \in LatentChoices(n, q) : heap = [r.heap EXCEPT !.X = m]
              /\ gplvm = [N |-> n, Q |-> q, X |-> [base |-> "X"]]
    /\ raised = "none"
    /\ X = << >>
    /\ target = << >>
    /\ last = NoCall
    /\ total = << >>
    /\ gram = NoGram

\* m._set_params(x) with an array x the caller has just made
GSetParams ==
    /\ \E x \in ParamArrays(gplvm.N, gplvm.Q) :
          LET r == GPLVM_set_params(gplvm, kern, [heap EXCEPT !.x = x])
          IN  /\ gplvm' = r.self
              /\ kern' = r.kern
              /\ heap' = r.heap
              /\ raised' = r.raised
              /\ last' = [op |-> "set_params", arg |-> x, baseArg |-> r.baseArg]
    /\ UNCHANGED <<X, target, total, gram>>

\* x[i] = v by the caller, in place, right after it passed x to _set_params
GCallerWrite ==
    /\ last.op = "set_params"
    /\ \E i \in 1..Len(heap.x) :
          /\ heap' = [heap EXCEPT !.x[i] = 5 * One]
          /\ last' = [op |-> "write", index |-> i,
                      Xbefore |-> XVal(gplvm, heap)]
    /\ raised' = "none"
    /\ UNCHANGED <<kern, X, target, total, gplvm, gram>>

\* m._get_params()
GGetParams ==
    /\ last' = [op |-> "get_params", out |-> GPLVM_get_params(gplvm, kern, heap),
                prev |-> last.op, prevraised |-> raised,
                prevarg |-> IF last.op = "set_params" THEN last.arg ELSE << >>]
    /\ last.op # "get_params"
    /\ raised' = "none"
    /\ UNCHANGED <<kern, heap, X, target, total, gplvm, gram>>

\* m._get_param_names()
GGetParamNames ==
    /\ last' = [op |-> "get_param_names",
                out |-> GPLVM_get_param_names(gplvm, kern, heap)]
    /\ raised' = "none"
    /\ UNCHANGED <<kern, heap, X, target, total, gplvm, gram>>

\* m._log_likelihood_gradients(), the base model giving some dL_dK
GGradients ==
    /\ \E dL_dK \in PartialChoices(gplvm.N, gplvm.N) :
          last' = [op |-> "gradients", dL_dK |-> dL_dK,
                   out |-> GPLVM_log_likelihood_gradients(gplvm, kern, heap, dL_dK)]
    /\ raised' = "none"
    /\ UNCHANGED <<kern, heap, X, target, total, gplvm, gram>>

NextGPLVM ==
    \/ GSetParams
    \/ GCallerWrite
    \/ GGetParams
    \/ GGetParamNames
    \/ GGradients

SpecGPLVM == InitGPLVM /\ [][NextGPLVM]_vars

-----------------------------------------------------------------------------
(* Claims about GPLVM, checked under SpecGPLVM.                            *)

\* C7: set_params(x) stores the first N*Q entries of x row by row as a fresh
\* N x Q matrix that a later write to x does not change, hands x[N*Q:] to the
\* base model, and get_params() right after begins with x[:N*Q].
C7_FreshCopy ==
    LET size == gplvm.N * gplvm.Q
    IN  /\ (last.op = "set_params" /\ raised # "ValueError") =>
              /\ XVal(gplvm, heap) = reshape(SubSeq(last.arg, 1, size), gplvm.N, gplvm.Q)
              /\ \A n \in 1..gplvm.N, q \in 1..gplvm.Q :
                    XVal(gplvm, heap)[n][q] = last.arg[(n - 1) * gplvm.Q + q]
              /\ last.baseArg = SubSeq(last.arg, size + 1, Len(last.arg))
        /\ last.op = "write" => XVal(gplvm, heap) = last.Xbefore
        /\ (last.op = "get_params" /\ last.prev = "set_params"
              /\ last.prevraised # "ValueError") =>
              SubSeq(last.out, 1, size) = SubSeq(last.prevarg, 1, size)

\* C7 witness: the caller has overwritten an entry among the first N*Q of the
\* array it had passed to a successful set_params of a 2 x 2 model, and X
\* still holds the entry the array had at the call.
C7_Witness ==
    /\ last.op = "write" /\ gplvm.N = 2 /\ gplvm.Q = 2
    /\ last.index <= 4
    /\ flatten(XVal(gplvm, heap))[last.index] # heap.x[last.index]
    /\ XVal(gplvm, heap) = last.Xbefore

\* C8: the gradient vector has the length of get_params(); entry n*Q + q is
\* twice entry [n, q] of the kernel's dK_dX(dL_dK, X), and the entries from
\* N*Q on are the kernel's dK_dtheta(dL_dK, X).
C8_GradientLayout ==
    last.op = "gradients" =>
        LET size == gplvm.N * gplvm.Q
            Xa == XVal(gplvm, heap)
            g == kern_dK_dX(kern, heap, last.dL_dK, Xa)
            th == kern_dK_dtheta(kern, heap, last.dL_dK, Xa)
        IN  /\ Len(last.out) = Len(GPLVM_get_params(gplvm, kern, heap))
            /\ \A n \in 1..gplvm.N, q \in 1..gplvm.Q :
                  last.out[(n - 1) * gplvm.Q + q] = 2 * g[n][q]
            /\ SubSeq(last.out, size + 1, Len(last.out)) = th

\* C8 witness: the gradients of a 2 x 2 model whose rows differ, with four
\* different latent gradients and non-zero hyperparameter gradients.
C8_Witness ==
    /\ last.op = "gradients" /\ gplvm.N = 2 /\ gplvm.Q = 2
    /\ Len(last.out) = 6
    /\ Cardinality({last.out[c] : c \in 1..4}) = 4
    /\ last.out[5] # 0 /\ last.out[6] # 0

\* C10: the name at each position of param_names() is the name of the value
\* at that position of get_params(): 'X_n_q' where X[n, q] is, then the
\* kernel's names.
C10_NamesAlign ==
    last.op = "get_param_names" =>
        /\ \A n \in 0..(gplvm.N - 1), q \in 0..(gplvm.Q - 1) :
              \* X[n, q] is entry n*Q + q of X.flatten()
              last.out[n * gplvm.Q + q + 1] = "X_" \o ToString(n) \o "_" \o ToString(q)
        /\ SubSeq(last.out, gplvm.N * gplvm.Q + 1, Len(last.out))
              = kern_get_param_names_transformed(kern, heap)

-----------------------------------------------------------------------------
(* Gram_matrix(F, F1, lower, upper), one loop iteration per step.  A basis *)
(* function is a line f(x) = a + b*x, the record [a, b]; F1 holds the      *)
(* derivatives, so F1[i](x) = F[i].b.                                      *)

\* F[i](x)
CallF(f, x) == FAdd(f.a, FMul(f.b, x))

\* F1[i](x)
CallF1(f, x) == f.b

\* def L(x,i): return(1./self.lengthscale*F[i](x) + F1[i](x))
L(self, h, F, x, i) ==
    FAdd(FMul(FDiv(One, ls(self, h, 1)), CallF(F[i], x)), CallF1(F[i], x))

\* integrate.quad(lambda x : L(x,i)*L(x,j),lower,upper)[0]: Simpson's rule,
\* exact for the product of two lines
quad(self, h, F, i, j, lower, upper) ==
    LET g(x) == FMul(L(self, h, F, x, i), L(self, h, F, x, j))
        mid == RoundDiv(lower + upper, 2)
    IN  RoundDiv((upper - lower) * (g(lower) + 4 * g(mid) + g(upper)), 6 * SCALE)

\* G[i,j] = v alone, without the mirrored entry
assign_upper_only(G, i, j, v) == [G EXCEPT ![i][j] = v]

\* G[i,j] = G[j,i] = v
assign_mirrored(G, i, j, v) == [G EXCEPT ![i][j] = v, ![j][i] = v]

\* Flower = np.array([f(lower) for f in F])[:,None]
Flower(F, lower) == [i \in DOMAIN F |-> CallF(F[i], lower)]

\* self.lengthscale/2./self.variance * G + 1./self.variance * np.dot(Flower,Flower.T)
Gram_result(self, h, G, Fl) ==
    [a \in DOMAIN G |-> [b \in DOMAIN G |->
        FAdd(FMul(FDiv(FDiv(ls(self, h, 1), 2 * One), self.variance), G[a][b]),
             FMul(FDiv(One, self.variance), FMul(Fl[a], Fl[b])))]]

\* the basis functions: 1 and 1 + x
BasisFns == {[a |-> One, b |-> 0], [a |-> One, b |-> One]}

\* the domains [lower, upper]: [0, 1] and [1, 3]
Domains == {[lower |-> 0, upper |-> One], [lower |-> One, upper |-> 3 * One]}

InitGram ==
    /\ \E Din \in 1..MaxD, ARDin \in BOOLEAN, dflt \in BOOLEAN :
          LET v == IF dflt THEN One ELSE 2 * One
              l == IF dflt THEN None ELSE KernelLengthscale(Din, ARDin)
              r == init([x |-> << >>, p |-> << >>], Din, v, l, ARDin)
          IN  /\ kern = r.self
              /\ heap = r.heap
    /\ raised = "none"
    /\ X = << >>
    /\ target = << >>
    /\ last = NoCall
    /\ total = << >>
    /\ gplvm = NoGplvm
    /\ gram = [pc |-> "idle"]

\* the call: assert self.D == 1; n = F.shape[0]; G = np.zeros((n,n))
GramCall ==
    /\ gram.pc = "idle"
    /\ \E n \in 0..MaxBasis, dom \in Domains :
       \E F \in SeqsOfLen(BasisFns, n) :
          IF kern.D # 1
          THEN /\ gram' = [pc |-> "raised", F |-> F]
               /\ raised' = "AssertionError"
          ELSE /\ gram' = [pc |-> "loop", F |-> F, lower |-> dom.lower,
                           upper |-> dom.upper, n |-> n, G |-> zerosMat(n, n),
                           i |-> 1, j |-> 1, assigned |-> {}]
               /\ raised' = "none"
    /\ UNCHANGED <<kern, heap, X, target, last, total, gplvm>>

\* for j in range(i,n): G[i,j] = G[j,i] = integrate.quad(...)[0]
GramBody ==
    /\ gram.pc = "loop" /\ gram.i <= gram.n /\ gram.j <= gram.n
    /\ gram' = [gram EXCEPT
                  !.G = assign_mirrored(gram.G, gram.i, gram.j,
                            quad(kern, heap, gram.F, gram.i, gram.j,
                                 gram.lower, gram.upper)),
                  !.assigned = @ \cup {<<gram.i, gram.j>>, <<gram.j, gram.i>>},
                  !.j = @ + 1]
    /\ UNCHANGED <<kern, raised, heap, X, target, last, total, gplvm>>

\* for i in range(n): the inner range is exhausted, the next i starts at j = i
GramNextRow ==
    /\ gram.pc = "loop" /\ gram.i <= gram.n /\ gram.j > gram.n
    /\ gram' = [gram EXCEPT !.i = @ + 1, !.j = gram.i + 1]
    /\ UNCHANGED <<kern, raised, heap, X, target, last, total, gplvm>>

\* the outer range is exhausted: Flower, and the return
GramReturn ==
    /\ gram.pc = "loop" /\ gram.i > gram.n
    /\ gram' = [pc |-> "done", F |-> gram.F, lower |-> gram.lower,
                upper |-> gram.upper, n |-> gram.n, G |-> gram.G,
                assigned |-> gram.assigned,
                ret |-> Gram_result(kern, heap, gram.G, Flower(gram.F, gram.lower))]
    /\ UNCHANGED <<kern, raised, heap, X, target, last, total, gplvm>>

NextGram ==
    \/ GramCall
    \/ GramBody
    \/ GramNextRow
    \/ GramReturn

\* the interpreter runs the call to its end: a step that can be taken is taken
SpecGram == InitGram /\ [][NextGram]_vars /\ WF_vars(NextGram)

-----------------------------------------------------------------------------
(* Claim about Gram_matrix, checked under SpecGram.                        *)

\* what Gram_matrix has when it returns: every entry of G assigned, entry
\* (a, b) the quadrature of L[F_a]*L[F_b] and equal to entry (b, a), and the
\* returned matrix symmetric; and the call is refused exactly when D # 1
GramPost ==
    /\ gram.pc = "raised" <=> (gram.pc # "idle" /\ kern.D # 1)
    /\ gram.pc = "done" =>
          /\ gram.assigned = (1..gram.n) \X (1..gram.n)
          /\ \A a, b \in 1..gram.n :
                /\ gram.G[a][b] = quad(kern, heap, gram.F, a, b, gram.lower, gram.upper)
                /\ gram.G[a][b] = gram.G[b][a]
                /\ gram.ret[a][b] = gram.ret[b][a]
                /\ IsFinite(gram.ret[a][b])

\* C9: Gram_matrix raises when D # 1; otherwise its loop over the pairs
\* i <= j ends, with every entry of G the mirrored quadrature value and a
\* symmetric matrix returned.
C9_GramSymmetric == [](GramPost) /\ <>(gram.pc \in {"done", "raised"})

\* C9 witness: a call with two different basis functions has returned, the
\* off-diagonal entries of G equal and not zero.
C9_Witness ==
    /\ gram.pc = "done" /\ gram.n = 2 /\ gram.F[1] # gram.F[2]
    /\ gram.G[1][2] # 0 /\ gram.G[1][2] = gram.G[2][1]
    /\ gram.G[1][1] # gram.G[2][2]
    /\ gram.ret[1][2] = gram.ret[2][1]

====
